---- MODULE Spec2Model ----
(***************************************************************************)
(* Model of JourneySharingModule.java: the simulated trip (SimulatedTrip), *)
(* the control operations (startJourneySharing, stopJourneySharing,        *)
(* cleanup) and the background thread of startPeriodicUpdates.             *)
(*                                                                         *)
(* Units.  Coordinates are integers in micro-degrees, so the arrival       *)
(* threshold 0.0002 is 200.  Times are milliseconds since the module was   *)
(* constructed.  Distances are metres.  Headings are whole degrees.        *)
(*                                                                         *)
(* Threads.  The control operations run one at a time on the host's call   *)
(* thread and each is one step.  A worker thread takes one step per read   *)
(* of the shared fields isSessionActive / simulatedTrip that the others    *)
(* can change in between: the loop condition, the call of                  *)
(* updateVehicleLocation (one step on the session object it finds), and in *)
(* each send method the guard, the snapshot (createTripInfoMap), the       *)
(* payload read and the call into the bridge.  Field reads are             *)
(* sequentially consistent.  Nothing interrupts the thread, so the         *)
(* InterruptedException handler of the loop is never entered.              *)
(***************************************************************************)
EXTENDS Integers, Sequences, FiniteSets, TLC

\* ------------------------------------------------------------- bounds
MaxCalls == 3       \* control operations the host calls
MaxClock == 1       \* tick periods that elapse
MaxFaults == 1      \* bridge calls that throw
HostMaxCalls == 2   \* calls of a host that also sets tokens and passes any payload
TripMaxClock == 70  \* tick periods that elapse while one session is ticked to its end
MaxListenerCalls == 3  \* addListeners and removeListeners calls of the host

\* ---------------------------------------------------- program constants
STATUS_NEW == 0
ENROUTE_TO_PICKUP == 1
ARRIVED_AT_PICKUP == 2
ENROUTE_TO_DROPOFF == 3
COMPLETED == 4
CANCELED == 5

PICKUP == 0
DROPOFF == 1
INTERMEDIATE == 2

TickPeriodMillis == 2000
InitialDistanceMeters == 2500
InitialEtaMillis == 900000
DistanceStepMeters == 50
MinRemainingMillis == 60000
EtaKeepPercent == 95
MovePercent == 5
ArrivalThreshold == 200
PickupLeaveMeters == 100
DropoffLegMeters == 3000
DropoffLegMillis == 1200000
NextLegMeters == 2000
NextLegMillis == 600000

\* Java null, for an object reference and for a String.
Null == [null |-> TRUE]
NullString == "null"

\* --------------------------------------------------------------- inputs
LocA == [lat |-> 37422000, lng |-> -122084000]
LocB == [lat |-> 37421900, lng |-> -122084100]
LocC == [lat |-> 37421800, lng |-> -122084150]

\* A ReadableMap is a function from the keys it has to their values.
HasKey(m, key) == key \in DOMAIN m

\* The value under "tripStatus" as JavaScript passes it: a number or a string
\* (tripStatus: TripStatus | string).
JsNumber(n) == [number |-> n]
JsString(str) == [string |-> str]

WaypointMap(loc, type) == [location |-> loc, waypointType |-> type]

\* The payloads the host passes to startJourneySharing: a trip that the
\* simulation completes in two ticks, a trip that is created CANCELED (its first
\* waypoint without a type), and a payload without waypoints.
TripInputs ==
  { [tripName |-> "trip_B", tripStatus |-> JsNumber(ENROUTE_TO_PICKUP),
     remainingWaypoints |-> << WaypointMap(LocA, INTERMEDIATE), WaypointMap(LocB, DROPOFF) >>],
    [tripName |-> "trip_C", tripStatus |-> JsNumber(CANCELED),
     remainingWaypoints |-> << [location |-> LocA], WaypointMap(LocC, DROPOFF) >>],
    [tripName |-> "trip_D", tripStatus |-> JsNumber(ENROUTE_TO_DROPOFF),
     remainingWaypoints |-> << >>] }

Max(a, b) == IF a >= b THEN a ELSE b
Abs(a) == IF a >= 0 THEN a ELSE -a

\* ------------------------------------------------------- SimulatedTrip
\* (long)/(double) scaling by a percentage, truncated toward zero.
Percent(x, pct) == IF x >= 0 THEN (x * pct) \div 100 ELSE -(((-x) * pct) \div 100)

\* atan in whole degrees of a / b for 0 <= a <= b, b > 0.
AtanDeg(a, b) == (45 * a) \div b + (16 * a * (b - a)) \div (b * b)

\* Math.atan2(y, x) * 180 / Math.PI, in (-180, 180].
Atan2Deg(y, x) ==
  IF x = 0 /\ y = 0 THEN 0
  ELSE LET ax == Abs(x)
           ay == Abs(y)
           q == IF ay <= ax THEN AtanDeg(ay, ax) ELSE 90 - AtanDeg(ax, ay)
       IN IF x >= 0 THEN (IF y >= 0 THEN q ELSE -q)
          ELSE (IF y >= 0 THEN 180 - q ELSE q - 180)

\* Math.atan2(y, x) < 0, decided on the double before anything rounds it to whole
\* degrees: the angle is negative exactly when y is.
AngleIsNegative(y, x) == y < 0

\* heading = atan2(dlng, dlat) * 180 / PI; if (heading < 0) heading += 360.  The
\* test sees the exact angle and the sum is then rounded to what the heading can
\* represent (whole degrees here, a double in the code), so a negative angle
\* smaller than that resolution gives 360.
Heading(cur, target) ==
  LET y == target.lng - cur.lng
      x == target.lat - cur.lat
  IN IF AngleIsNegative(y, x) THEN 360 - Abs(Atan2Deg(y, x)) ELSE Atan2Deg(y, x)

\* distance < 0.0002, on the squares.
Arrived_Exactly(loc, target) == loc = target

Arrived(loc, target) ==
  (loc.lat - target.lat) * (loc.lat - target.lat)
    + (loc.lng - target.lng) * (loc.lng - target.lng)
    < ArrivalThreshold * ArrivalThreshold

\* new SimulatedTrip(tripData) at time t; sid names the object.
NewSimulatedTrip_StartsNew(tripData, t, sid) ==
  [sid |-> sid,
   tripData |-> tripData,
   currentStatus |-> STATUS_NEW,
   vehicleLocation |-> [location |-> tripData.remainingWaypoints[1].location,
                        heading |-> 0, timestamp |-> t],
   currentWaypointIndex |-> 0,
   remainingDistanceMeters |-> InitialDistanceMeters,
   etaTimestampMillis |-> t + InitialEtaMillis]

NewSimulatedTrip(tripData, t, sid) ==
  [sid |-> sid,
   tripData |-> tripData,
   currentStatus |-> tripData.tripStatus,
   vehicleLocation |-> [location |-> tripData.remainingWaypoints[1].location,
                        heading |-> 0, timestamp |-> t],
   currentWaypointIndex |-> 0,
   remainingDistanceMeters |-> InitialDistanceMeters,
   etaTimestampMillis |-> t + InitialEtaMillis]

IsTerminal_OnlyCompleted(status) == status = COMPLETED

IsTerminal_OnlyCanceled(status) == status = CANCELED

IsTerminal(status) == status = COMPLETED \/ status = CANCELED

\* currentWaypointIndex < tripData.remainingWaypoints.size(): there is a waypoint
\* to read at the cursor (get(currentWaypointIndex) is element cursor + 1 here).
HasTarget_Inclusive(s) == s.currentWaypointIndex <= Len(s.tripData.remainingWaypoints)

HasTarget(s) == s.currentWaypointIndex < Len(s.tripData.remainingWaypoints)

\* Arrival at a PICKUP waypoint.
ArrivePickup_AtThreshold(s, t) ==
  IF s.remainingDistanceMeters <= PickupLeaveMeters
    THEN LET left == [s EXCEPT !.currentStatus = ENROUTE_TO_DROPOFF,
                               !.currentWaypointIndex = @ + 1]
         IN IF HasTarget(left)
              THEN [left EXCEPT !.remainingDistanceMeters = DropoffLegMeters,
                                !.etaTimestampMillis = t + DropoffLegMillis]
              ELSE left
    ELSE [s EXCEPT !.currentStatus = ARRIVED_AT_PICKUP]

ArrivePickup_ResetsAsIntermediate(s, t) ==
  IF s.remainingDistanceMeters < PickupLeaveMeters
    THEN LET left == [s EXCEPT !.currentStatus = ENROUTE_TO_DROPOFF,
                               !.currentWaypointIndex = @ + 1]
         IN IF HasTarget(left)
              THEN [left EXCEPT !.remainingDistanceMeters = NextLegMeters,
                                !.etaTimestampMillis = t + NextLegMillis]
              ELSE left
    ELSE [s EXCEPT !.currentStatus = ARRIVED_AT_PICKUP]

ArrivePickup(s, t) ==
  IF s.remainingDistanceMeters < PickupLeaveMeters
    THEN LET left == [s EXCEPT !.currentStatus = ENROUTE_TO_DROPOFF,
                               !.currentWaypointIndex = @ + 1]
         IN IF HasTarget(left)
              THEN [left EXCEPT !.remainingDistanceMeters = DropoffLegMeters,
                                !.etaTimestampMillis = t + DropoffLegMillis]
              ELSE left
    ELSE [s EXCEPT !.currentStatus = ARRIVED_AT_PICKUP]

\* Arrival at a DROPOFF waypoint.
ArriveDropoff_KeepsDistance(s) == [s EXCEPT !.currentStatus = COMPLETED]

ArriveDropoff_Cancels(s) ==
  [s EXCEPT !.currentStatus = CANCELED, !.remainingDistanceMeters = 0]

ArriveDropoff(s) ==
  [s EXCEPT !.currentStatus = COMPLETED, !.remainingDistanceMeters = 0]

\* Arrival at a waypoint of any other type (INTERMEDIATE).
ArriveIntermediate_AlwaysResets(s, t) ==
  [s EXCEPT !.currentWaypointIndex = @ + 1,
            !.remainingDistanceMeters = NextLegMeters,
            !.etaTimestampMillis = t + NextLegMillis]

ArriveIntermediate(s, t) ==
  LET next == [s EXCEPT !.currentWaypointIndex = @ + 1]
  IN IF HasTarget(next)
       THEN [next EXCEPT !.remainingDistanceMeters = NextLegMeters,
                         !.etaTimestampMillis = t + NextLegMillis]
       ELSE next

\* The arrival branch of updateVehicleLocation, on the session s whose
\* distance, ETA and vehicle location this tick has already updated.
OnArrival(s, target, t) ==
  IF target.waypointType = PICKUP THEN ArrivePickup(s, t)
  ELSE IF target.waypointType = DROPOFF THEN ArriveDropoff(s)
  ELSE ArriveIntermediate(s, t)

\* The part of updateVehicleLocation that moves the vehicle.
MoveVehicle_ArrivesAnyway(s, t) ==
  IF HasTarget(s)
    THEN LET target == s.tripData.remainingWaypoints[s.currentWaypointIndex + 1]
             cur == s.vehicleLocation.location
             newLoc == [lat |-> cur.lat + Percent(target.location.lat - cur.lat, MovePercent),
                        lng |-> cur.lng + Percent(target.location.lng - cur.lng, MovePercent)]
             moved == [s EXCEPT !.vehicleLocation =
                         [location |-> newLoc,
                          heading |-> Heading(cur, target.location),
                          timestamp |-> t]]
         IN OnArrival(moved, target, t)
    ELSE s

MoveVehicle(s, t) ==
  IF HasTarget(s)
    THEN LET target == s.tripData.remainingWaypoints[s.currentWaypointIndex + 1]
             cur == s.vehicleLocation.location
             newLoc == [lat |-> cur.lat + Percent(target.location.lat - cur.lat, MovePercent),
                        lng |-> cur.lng + Percent(target.location.lng - cur.lng, MovePercent)]
             moved == [s EXCEPT !.vehicleLocation =
                         [location |-> newLoc,
                          heading |-> Heading(cur, target.location),
                          timestamp |-> t]]
         IN IF Arrived(newLoc, target.location)
              THEN OnArrival(moved, target, t)
              ELSE moved
    ELSE s

\* remainingDistanceMeters = Math.max(0, remainingDistanceMeters - 50)
DecayDistance_NoFloor(d) == d - DistanceStepMeters

DecayDistance(d) == Max(0, d - DistanceStepMeters)

\* remainingTime = Math.max(60000, eta - currentTime);
\* eta = currentTime + (long)(remainingTime * 0.95)
DecayEta_NoFloor(eta, t) == t + Percent(eta - t, EtaKeepPercent)

DecayEta(eta, t) == t + Percent(Max(MinRemainingMillis, eta - t), EtaKeepPercent)

\* SimulatedTrip.updateVehicleLocation() at time t.
UpdateVehicleLocation(s, t) ==
  IF IsTerminal(s.currentStatus)
    THEN s
    ELSE LET decayed ==
               [s EXCEPT !.remainingDistanceMeters = DecayDistance(@),
                         !.etaTimestampMillis = DecayEta(@, t)]
             after == MoveVehicle(decayed, t)
         IN [after EXCEPT !.tripData.tripStatus = after.currentStatus]

\* ------------------------------------------------ startJourneySharing
\* tripDataMap.getString("tripName"): null when the key is absent.
GetTripName(p) == IF HasKey(p, "tripName") THEN p.tripName ELSE NullString

\* The waypoints parsed by the loop over remainingWaypoints.
WaypointMaps(p) == IF HasKey(p, "remainingWaypoints") THEN p.remainingWaypoints ELSE << >>

\* tripDataMap.getInt("tripStatus") returns: the key is there and holds a number.
GetIntReturns(p) == HasKey(p, "tripStatus") /\ HasKey(p.tripStatus, "number")

\* The try block throws: getInt on an absent status or on a string, getDouble on
\* an absent location, or remainingWaypoints.get(0) of an empty list in the
\* constructor.
ParseThrows(p) ==
  \/ ~GetIntReturns(p)
  \/ \E i \in 1..Len(WaypointMaps(p)) : ~HasKey(WaypointMaps(p)[i], "location")
  \/ WaypointMaps(p) = << >>

\* new TripWaypoint(location, waypointType, ...), the type defaulting to PICKUP.
ParseWaypoint(m) ==
  [location |-> m.location,
   waypointType |-> IF HasKey(m, "waypointType") THEN m.waypointType ELSE PICKUP]

\* new TripData(tripName, tripStatus, waypoints, ...) from the payload.
ParseTripData(p) ==
  [tripName |-> GetTripName(p),
   tripStatus |-> p.tripStatus.number,
   remainingWaypoints |->
     [i \in 1..Len(WaypointMaps(p)) |-> ParseWaypoint(WaypointMaps(p)[i])]]

\* ---------------------------------------------------------------- state
VARIABLES
  isSessionActive,   \* JourneySharingModule.isSessionActive
  simulatedTrip,     \* JourneySharingModule.simulatedTrip: Null or the session object
  tripId,            \* JourneySharingModule.tripId
  calls,             \* number of control operations called
  started,           \* number of accepted starts = number of threads created
  worker,            \* the threads of startPeriodicUpdates, by creation order
  now,               \* System.currentTimeMillis()
  faults,            \* bridge calls that have thrown
  promise,           \* how the last control operation settled its Promise
  lastEvent,         \* the last event handed to the bridge
  providerId,        \* JourneySharingModule.providerId
  providerToken,     \* JourneySharingModule.providerToken
  hook,              \* useJourneySharing: isInitialized, isSessionActive, activeListeners
  subscriptions,     \* the activeListeners that the handlers of the last useEffect run see
  invoked,           \* the last callback of the host that a handler has called
  listenerCalls      \* number of addListeners and removeListeners calls

\* The state on the JavaScript side.
jsVars == << hook, subscriptions, invoked, listenerCalls >>

vars == << isSessionActive, simulatedTrip, tripId, calls, started, worker, now, faults,
           promise, lastEvent, providerId, providerToken, jsVars >>

\* A start is accepted only after a stop or cleanup of the session before it.
Workers == 1..((MaxCalls + 1) \div 2)

\* The four send methods, in the order the loop body calls them.
EventNames == << "onTripStatusUpdated", "onTripVehicleLocationUpdated",
                 "onTripETAToNextWaypointUpdated",
                 "onTripActiveRouteRemainingDistanceUpdated" >>

\* pc: the statement the thread is at; k: the send method it is in; sent: the
\* events it has handed to the bridge in this tick; seen: the session object it
\* found at its last null check (0: none pending); info, payload: the locals of
\* the send method; slept: the sleep's period has elapsed.
NoThread == [pc |-> "none", k |-> 0, sent |-> 0, seen |-> 0,
             info |-> Null, payload |-> Null, slept |-> FALSE]

Resolve(op) == [op |-> op, settled |-> "resolve", value |-> "true"]
Reject(op, code) == [op |-> op, settled |-> "reject", value |-> code]

\* useState<JourneySharingListeners>({}): no callback under any event name.
NoListeners == [name \in {} |-> "none"]

\* No callback of the host has been called.
NoCallback == [name |-> "none", callback |-> "none"]

\* A handler subscribed by useEffect receives the event: it calls the callback
\* that the activeListeners of its render hold under the event's name, if any.
HandleEvent(listeners, name) ==
  IF name \in DOMAIN listeners
    THEN [name |-> name, callback |-> listeners[name]]
    ELSE invoked

Init ==
  /\ isSessionActive = FALSE
  /\ simulatedTrip = Null
  /\ tripId = NullString
  /\ calls = 0
  /\ started = 0
  /\ worker = [w \in Workers |-> NoThread]
  /\ now = 0
  /\ faults = 0
  /\ promise = Null
  /\ lastEvent = Null
  /\ providerId = NullString
  /\ providerToken = NullString
  /\ hook = [isInitialized |-> FALSE, isSessionActive |-> FALSE, activeListeners |-> NoListeners]
  /\ subscriptions = NoListeners
  /\ invoked = NoCallback
  /\ listenerCalls = 0

\* --------------------------------------------------- control operations
StartRejected_Never == FALSE

\* if (isSessionActive) { promise.reject("SESSION_ACTIVE", ...); return; }
StartRejected == isSessionActive

\* new Thread(...).start() in startPeriodicUpdates: the thread begins at
\* the loop condition.
StartPeriodicUpdates(w) ==
  worker' = [worker EXCEPT ![w] = [NoThread EXCEPT !.pc = "check"]]

startJourneySharing(p) ==
  /\ calls < MaxCalls
  /\ calls' = calls + 1
  /\ IF StartRejected
       THEN /\ promise' = Reject("start", "SESSION_ACTIVE")
            /\ UNCHANGED << isSessionActive, simulatedTrip, tripId, started, worker >>
     ELSE IF ParseThrows(p)
       THEN /\ tripId' = GetTripName(p)
            /\ promise' = Reject("start", "START_ERROR")
            /\ UNCHANGED << isSessionActive, simulatedTrip, started, worker >>
     ELSE /\ tripId' = GetTripName(p)
          /\ simulatedTrip' = NewSimulatedTrip(ParseTripData(p), now, started + 1)
          /\ isSessionActive' = TRUE
          /\ started' = started + 1
          /\ StartPeriodicUpdates(started + 1)
          /\ promise' = Resolve("start")
  /\ UNCHANGED << now, faults, lastEvent >>
  /\ UNCHANGED << providerId, providerToken >>

StopRejected_Never == FALSE

\* if (!isSessionActive) { promise.reject("NO_SESSION", ...); return; }
StopRejected == ~isSessionActive

stopJourneySharing ==
  /\ calls < MaxCalls
  /\ calls' = calls + 1
  /\ IF StopRejected
       THEN /\ promise' = Reject("stop", "NO_SESSION")
            /\ UNCHANGED << isSessionActive, simulatedTrip >>
       ELSE /\ isSessionActive' = FALSE
            /\ simulatedTrip' = Null
            /\ promise' = Resolve("stop")
  /\ UNCHANGED << tripId, started, worker, now, faults, lastEvent >>
  /\ UNCHANGED << providerId, providerToken >>

CleanupStops_Never == FALSE

\* if (isSessionActive) { isSessionActive = false; simulatedTrip = null; }
CleanupStops == isSessionActive

cleanup ==
  /\ calls < MaxCalls
  /\ calls' = calls + 1
  /\ IF CleanupStops
       THEN /\ isSessionActive' = FALSE
            /\ simulatedTrip' = Null
       ELSE UNCHANGED << isSessionActive, simulatedTrip >>
  /\ promise' = Resolve("cleanup")
  /\ UNCHANGED << tripId, started, worker, now, faults, lastEvent >>
  /\ UNCHANGED << providerId, providerToken >>

\* ------------------------------------------------------ the worker thread
SetWorker(w, r) == worker' = [worker EXCEPT ![w] = r]

\* catch (Exception e) { Log.e(...); }: the loop goes on, without the sleep.
CatchException_Break(r) ==
  [r EXCEPT !.pc = "done", !.k = 0, !.sent = 0, !.seen = 0, !.info = Null, !.payload = Null]

CatchException(r) ==
  [r EXCEPT !.pc = "check", !.k = 0, !.sent = 0, !.seen = 0, !.info = Null, !.payload = Null]

\* The next statement after send method k has returned.
AfterSend(r, k) ==
  IF k < 4
    THEN [r EXCEPT !.pc = "guard", !.k = k + 1, !.seen = 0, !.info = Null, !.payload = Null]
    ELSE [r EXCEPT !.pc = "sleep", !.k = 0, !.seen = 0, !.info = Null, !.payload = Null,
                   !.slept = FALSE]

\* while (isSessionActive && simulatedTrip != null)
LoopCheck(w) ==
  /\ worker[w].pc = "check"
  /\ IF isSessionActive /\ simulatedTrip # Null
       THEN SetWorker(w, [worker[w] EXCEPT !.pc = "advance", !.seen = simulatedTrip.sid])
       ELSE SetWorker(w, [worker[w] EXCEPT !.pc = "done", !.sent = 0])
  /\ UNCHANGED << isSessionActive, simulatedTrip, tripId, calls, started, now, faults,
                  promise, lastEvent >>
  /\ UNCHANGED << providerId, providerToken, jsVars >>

\* simulatedTrip.updateVehicleLocation(): a NullPointerException when the
\* field has been cleared since the loop condition.
Advance(w) ==
  /\ worker[w].pc = "advance"
  /\ IF simulatedTrip = Null
       THEN /\ SetWorker(w, CatchException(worker[w]))
            /\ UNCHANGED simulatedTrip
       ELSE /\ simulatedTrip' = UpdateVehicleLocation(simulatedTrip, now)
            /\ SetWorker(w, [worker[w] EXCEPT !.pc = "guard", !.k = 1,
                                              !.sent = 0, !.seen = 0])
  /\ UNCHANGED << isSessionActive, tripId, calls, started, now, faults, promise, lastEvent >>
  /\ UNCHANGED << providerId, providerToken, jsVars >>

\* if (!isSessionActive || simulatedTrip == null) return;
SendGuard(w) ==
  /\ worker[w].pc = "guard"
  /\ IF ~isSessionActive \/ simulatedTrip = Null
       THEN SetWorker(w, AfterSend(worker[w], worker[w].k))
       ELSE SetWorker(w, [worker[w] EXCEPT !.pc = "info", !.seen = simulatedTrip.sid])
  /\ UNCHANGED << isSessionActive, simulatedTrip, tripId, calls, started, now, faults,
                  promise, lastEvent >>
  /\ UNCHANGED << providerId, providerToken, jsVars >>

\* createTripInfoMap(): empty when simulatedTrip is null.
CreateTripInfoMap ==
  IF simulatedTrip = Null
    THEN [sid |-> 0]
    ELSE IF simulatedTrip.tripData.remainingWaypoints = << >>
      THEN [sid |-> simulatedTrip.sid,
            tripId |-> simulatedTrip.tripData.tripName,
            tripStatus |-> simulatedTrip.tripData.tripStatus]
      ELSE [sid |-> simulatedTrip.sid,
            tripId |-> simulatedTrip.tripData.tripName,
            tripStatus |-> simulatedTrip.tripData.tripStatus,
            remainingWaypoints |-> simulatedTrip.tripData.remainingWaypoints]

SendInfo(w) ==
  /\ worker[w].pc = "info"
  /\ SetWorker(w, [worker[w] EXCEPT !.pc = "payload", !.info = CreateTripInfoMap])
  /\ UNCHANGED << isSessionActive, simulatedTrip, tripId, calls, started, now, faults,
                  promise, lastEvent >>
  /\ UNCHANGED << providerId, providerToken, jsVars >>

\* The field of simulatedTrip that send method k reads.
PayloadOf(s, k) ==
  [sid |-> s.sid,
   value |-> CASE k = 1 -> s.currentStatus
               [] k = 2 -> s.vehicleLocation
               [] k = 3 -> s.etaTimestampMillis
               [] OTHER -> s.remainingDistanceMeters]

\* int status = simulatedTrip.currentStatus; and its likes: a
\* NullPointerException when the field has been cleared since the guard.
SendPayload(w) ==
  /\ worker[w].pc = "payload"
  /\ IF simulatedTrip = Null
       THEN SetWorker(w, CatchException(worker[w]))
       ELSE SetWorker(w, [worker[w] EXCEPT !.pc = "emit",
                                           !.payload = PayloadOf(simulatedTrip, worker[w].k)])
  /\ UNCHANGED << isSessionActive, simulatedTrip, tripId, calls, started, now, faults,
                  promise, lastEvent >>
  /\ UNCHANGED << providerId, providerToken, jsVars >>

\* sendCommandToReactNative(name, params): the event is handed to the bridge.
Emit(w) ==
  /\ worker[w].pc = "emit"
  /\ lastEvent' = [name |-> EventNames[worker[w].k], k |-> worker[w].k, worker |-> w]
  /\ SetWorker(w, AfterSend([worker[w] EXCEPT !.sent = @ + 1], worker[w].k))
  /\ UNCHANGED << isSessionActive, simulatedTrip, tripId, calls, started, now, faults, promise >>
  /\ invoked' = HandleEvent(subscriptions, EventNames[worker[w].k])
  /\ UNCHANGED << providerId, providerToken, hook, subscriptions, listenerCalls >>

\* sendCommandToReactNative throws (no catalyst instance): caught by the loop.
EmitThrows(w) ==
  /\ worker[w].pc = "emit"
  /\ faults < MaxFaults
  /\ faults' = faults + 1
  /\ SetWorker(w, CatchException(worker[w]))
  /\ UNCHANGED << isSessionActive, simulatedTrip, tripId, calls, started, now, promise, lastEvent >>
  /\ UNCHANGED << providerId, providerToken, jsVars >>

\* Thread.sleep(2000) returns.
Wake(w) ==
  /\ worker[w].pc = "sleep"
  /\ worker[w].slept
  /\ SetWorker(w, [worker[w] EXCEPT !.pc = "check", !.slept = FALSE])
  /\ UNCHANGED << isSessionActive, simulatedTrip, tripId, calls, started, now, faults,
                  promise, lastEvent >>
  /\ UNCHANGED << providerId, providerToken, jsVars >>

\* One tick period elapses: every pending Thread.sleep(2000) may return.
TimePasses ==
  /\ now < MaxClock * TickPeriodMillis
  /\ now' = now + TickPeriodMillis
  /\ worker' = [w \in Workers |->
                  IF worker[w].pc = "sleep" THEN [worker[w] EXCEPT !.slept = TRUE]
                  ELSE worker[w]]
  /\ UNCHANGED << isSessionActive, simulatedTrip, tripId, calls, started, faults,
                  promise, lastEvent >>
  /\ UNCHANGED << providerId, providerToken, jsVars >>

Next ==
  \/ (\E p \in TripInputs : startJourneySharing(p)) /\ UNCHANGED jsVars
  \/ stopJourneySharing /\ UNCHANGED jsVars
  \/ cleanup /\ UNCHANGED jsVars
  \/ \E w \in Workers : LoopCheck(w)
  \/ \E w \in Workers : Advance(w)
  \/ \E w \in Workers : SendGuard(w)
  \/ \E w \in Workers : SendInfo(w)
  \/ \E w \in Workers : SendPayload(w)
  \/ \E w \in Workers : Emit(w)
  \/ \E w \in Workers : EmitThrows(w)
  \/ \E w \in Workers : Wake(w)
  \/ TimePasses

Spec == Init /\ [][Next]_vars

\* ------------------------------------------------- the host's other calls
\* A waypoint far to the north of LocA and a hair to its west.
LocN == [lat |-> 37426000, lng |-> -122084010]

\* A waypoint type code that is none of PICKUP, DROPOFF, INTERMEDIATE.
UnknownWaypointType == 7

\* The payloads of the host: the documented example (its status the name
\* TripStatus[TripStatus.NEW]), the same with the status code, payloads without
\* name, without status, without waypoints, with a waypoint without location,
\* with a waypoint of an unknown type, and a trip that turns north at LocA.
HostPayloads ==
  { [tripName |-> "trip-123", tripStatus |-> JsString("NEW"),
     remainingWaypoints |-> << WaypointMap(LocA, PICKUP), WaypointMap(LocC, DROPOFF) >>],
    [tripName |-> "trip-123", tripStatus |-> JsNumber(STATUS_NEW),
     remainingWaypoints |-> << WaypointMap(LocA, PICKUP), WaypointMap(LocC, DROPOFF) >>],
    [tripStatus |-> JsNumber(STATUS_NEW),
     remainingWaypoints |-> << WaypointMap(LocA, PICKUP), WaypointMap(LocC, DROPOFF) >>],
    [tripName |-> "no-status",
     remainingWaypoints |-> << WaypointMap(LocA, PICKUP), WaypointMap(LocC, DROPOFF) >>],
    [tripName |-> "no-waypoints", tripStatus |-> JsNumber(STATUS_NEW)],
    [tripName |-> "no-location", tripStatus |-> JsNumber(STATUS_NEW),
     remainingWaypoints |-> << [waypointType |-> PICKUP] >>],
    [tripName |-> "odd-type", tripStatus |-> JsNumber(ENROUTE_TO_PICKUP),
     remainingWaypoints |-> << WaypointMap(LocA, UnknownWaypointType),
                               WaypointMap(LocB, DROPOFF) >>],
    [tripName |-> "north", tripStatus |-> JsNumber(ENROUTE_TO_DROPOFF),
     remainingWaypoints |-> << WaypointMap(LocA, INTERMEDIATE),
                               WaypointMap(LocN, DROPOFF) >>] }

ProviderTokens == {"token-1", "token-2"}

\* init(providerId, providerToken, promise)
init(id, token) ==
  /\ providerId' = id
  /\ providerToken' = token
  /\ calls' = calls + 1
  /\ promise' = Resolve("init")
  /\ UNCHANGED << isSessionActive, simulatedTrip, tripId, started, worker, now, faults,
                  lastEvent >>

\* setProviderToken(token, promise)
setProviderToken_EndsSession(token) ==
  /\ providerToken' = token
  /\ isSessionActive' = FALSE
  /\ simulatedTrip' = Null
  /\ calls' = calls + 1
  /\ promise' = Resolve("setProviderToken")
  /\ UNCHANGED << tripId, started, worker, now, faults, lastEvent, providerId >>

setProviderToken(token) ==
  /\ providerToken' = token
  /\ calls' = calls + 1
  /\ promise' = Resolve("setProviderToken")
  /\ UNCHANGED << isSessionActive, simulatedTrip, tripId, started, worker, now, faults,
                  lastEvent, providerId >>

\* One call of the host, of at most HostMaxCalls.
HostCalls ==
  /\ calls < HostMaxCalls
  /\ UNCHANGED jsVars
  /\ \/ \E token \in ProviderTokens \cup {NullString} : init("provider", token)
     \/ \E token \in ProviderTokens : setProviderToken(token)
     \/ \E p \in HostPayloads : startJourneySharing(p)
     \/ stopJourneySharing
     \/ cleanup

\* The steps of the threads and of the clock.
ThreadsRun ==
  \/ \E w \in Workers : LoopCheck(w)
  \/ \E w \in Workers : Advance(w)
  \/ \E w \in Workers : SendGuard(w)
  \/ \E w \in Workers : SendInfo(w)
  \/ \E w \in Workers : SendPayload(w)
  \/ \E w \in Workers : Emit(w)
  \/ \E w \in Workers : Wake(w)
  \/ TimePasses

NextHost ==
  \/ HostCalls
  \/ ThreadsRun

SpecHost == Init /\ [][NextHost]_vars

\* ------------------------------------------- one session, ticked to its end
\* The waypoints of a long trip, by position: the vehicle starts on the first.
TripLocs == << LocA, LocC, LocB >>

WaypointTypes == {PICKUP, DROPOFF, INTERMEDIATE}

Statuses == {STATUS_NEW, ENROUTE_TO_PICKUP, ARRIVED_AT_PICKUP, ENROUTE_TO_DROPOFF,
             COMPLETED, CANCELED}

\* Every sequence of waypoint types of each length the positions allow.
TripShapes == UNION {[1..n -> WaypointTypes] : n \in 1..Len(TripLocs)}

\* The payloads of one start: every status with every waypoint sequence.
TripPayloads ==
  {[tripName |-> "trip", tripStatus |-> JsNumber(st),
    remainingWaypoints |-> [i \in 1..Len(sh) |-> WaypointMap(TripLocs[i], sh[i])]] :
     st \in Statuses, sh \in TripShapes}

\* The host starts one session and calls nothing else.
StartTrip ==
  /\ calls = 0
  /\ \E p \in TripPayloads : startJourneySharing(p)
  /\ UNCHANGED jsVars

\* Thread.sleep(2000) of the only thread: the period elapses while it sleeps.
SleepElapses ==
  /\ now < TripMaxClock * TickPeriodMillis
  /\ \E w \in Workers : worker[w].pc = "sleep" /\ ~worker[w].slept
  /\ now' = now + TickPeriodMillis
  /\ worker' = [w \in Workers |->
                  IF worker[w].pc = "sleep" THEN [worker[w] EXCEPT !.slept = TRUE]
                  ELSE worker[w]]
  /\ UNCHANGED << isSessionActive, simulatedTrip, tripId, calls, started, faults,
                  promise, lastEvent >>
  /\ UNCHANGED << providerId, providerToken, jsVars >>

\* The steps of the thread and of its sleep.
TripRuns ==
  \/ \E w \in Workers : LoopCheck(w)
  \/ \E w \in Workers : Advance(w)
  \/ \E w \in Workers : SendGuard(w)
  \/ \E w \in Workers : SendInfo(w)
  \/ \E w \in Workers : SendPayload(w)
  \/ \E w \in Workers : Emit(w)
  \/ \E w \in Workers : Wake(w)
  \/ SleepElapses

NextTrip ==
  \/ StartTrip
  \/ TripRuns

SpecTrip == Init /\ [][NextTrip]_vars

\* A started thread is scheduled and its sleep returns: while the thread has a
\* step to take, it takes one.
SpecTripFair == SpecTrip /\ WF_vars(TripRuns)

\* ------------------------------- one session and a host that calls on
\* The payloads of a short trip: one or two waypoints, the first not a PICKUP
\* (the vehicle starts on the first waypoint, so the first tick arrives there).
DonePayloads ==
  {p \in TripPayloads :
     /\ Len(p.remainingWaypoints) <= 2
     /\ p.remainingWaypoints[1].waypointType # PICKUP}

\* The host starts one session of a short trip.
StartShortTrip ==
  /\ calls = 0
  /\ \E p \in DonePayloads : startJourneySharing(p)
  /\ UNCHANGED jsVars

\* The host calls start again while the session is active.
RetryStart ==
  /\ isSessionActive
  /\ \E p \in TripInputs : startJourneySharing(p)
  /\ UNCHANGED jsVars

\* The host ends the session, or calls stop or cleanup after that.
EndTrip ==
  /\ calls > 0
  /\ \/ stopJourneySharing
     \/ cleanup
  /\ UNCHANGED jsVars

NextDone ==
  \/ StartShortTrip
  \/ RetryStart
  \/ EndTrip
  \/ TripRuns

SpecDone == Init /\ [][NextDone]_vars

\* --------------------------------------- a trip whose pickup is far away
\* Trips that begin at an INTERMEDIATE waypoint on LocA and go on to a PICKUP:
\* at LocN, which the vehicle needs more than fifty ticks to reach, or at LocC,
\* which it reaches within a few.
FarPickupPayloads ==
  {[tripName |-> "far", tripStatus |-> JsNumber(st),
    remainingWaypoints |-> << WaypointMap(LocA, INTERMEDIATE), WaypointMap(loc, PICKUP),
                              WaypointMap(LocB, DROPOFF) >>] :
     st \in {STATUS_NEW, ENROUTE_TO_PICKUP}, loc \in {LocN, LocC}}

\* The host starts one session of such a trip and calls nothing else.
StartFarPickupTrip ==
  /\ calls = 0
  /\ \E p \in FarPickupPayloads : startJourneySharing(p)
  /\ UNCHANGED jsVars

NextFarPickup ==
  \/ StartFarPickupTrip
  \/ TripRuns

SpecFarPickup == Init /\ [][NextFarPickup]_vars

\* ------------------------------------------- the controller of the hook
\* What the continuation of each controller method does to the state of the
\* hook once the Promise of the native method has settled: setIsInitialized and
\* setIsSessionActive after the await, nothing in the catch block.
AfterInit(h, native) ==
  IF native.settled = "resolve"
    THEN [h EXCEPT !.isInitialized = (native.value = "true")]
    ELSE h

AfterStart_Optimistic(h, native) == [h EXCEPT !.isSessionActive = TRUE]

AfterStart(h, native) ==
  IF native.settled = "resolve"
    THEN [h EXCEPT !.isSessionActive = (native.value = "true")]
    ELSE h

AfterStop(h, native) ==
  IF native.settled = "resolve"
    THEN [h EXCEPT !.isSessionActive = FALSE]
    ELSE h

AfterCleanup(h, native) ==
  IF native.settled = "resolve"
    THEN [h EXCEPT !.isSessionActive = FALSE, !.isInitialized = FALSE]
    ELSE h

\* journeySharingController.init(providerId, token), up to its return.
controller_init(id, token) ==
  /\ init(id, token)
  /\ hook' = AfterInit(hook, promise')
  /\ UNCHANGED << subscriptions, invoked, listenerCalls >>

\* journeySharingController.setProviderToken(token): no state of the hook.
controller_setProviderToken(token) ==
  /\ setProviderToken(token)
  /\ UNCHANGED jsVars

\* journeySharingController.startJourneySharing(tripData)
controller_startJourneySharing(p) ==
  /\ startJourneySharing(p)
  /\ hook' = AfterStart(hook, promise')
  /\ UNCHANGED << subscriptions, invoked, listenerCalls >>

\* journeySharingController.stopJourneySharing()
controller_stopJourneySharing ==
  /\ stopJourneySharing
  /\ hook' = AfterStop(hook, promise')
  /\ UNCHANGED << subscriptions, invoked, listenerCalls >>

\* journeySharingController.cleanup()
controller_cleanup ==
  /\ cleanup
  /\ hook' = AfterCleanup(hook, promise')
  /\ UNCHANGED << subscriptions, invoked, listenerCalls >>

\* One call of the host through the controller, of at most MaxCalls.
ControllerCalls ==
  /\ calls < MaxCalls
  /\ \/ controller_init("provider", "token-1")
     \/ controller_setProviderToken("token-2")
     \/ \E p \in TripInputs : controller_startJourneySharing(p)
     \/ controller_stopJourneySharing
     \/ controller_cleanup

NextController ==
  \/ ControllerCalls
  \/ ThreadsRun

SpecController == Init /\ [][NextController]_vars

\* ------------------------------------------- the listeners of the hook
\* The fields of the native module and its threads.
nativeVars == << isSessionActive, simulatedTrip, tripId, calls, started, worker, now, faults,
                 promise, lastEvent, providerId, providerToken >>

\* Two of the event names of JourneySharingListeners, and two callbacks of the
\* host (functions, compared by identity).
ListenerNames == {"onTripStatusUpdated", "onTripVehicleLocationUpdated"}

Callbacks == {"f", "g"}

\* A JourneySharingListeners object: callbacks under some of the names.
ListenerObjects == UNION {[S -> Callbacks] : S \in SUBSET ListenerNames}

\* ({ ...prevListeners, ...listeners })
MergeListeners(prev, listeners) ==
  [name \in DOMAIN prev \cup DOMAIN listeners |->
     IF name \in DOMAIN listeners THEN listeners[name] ELSE prev[name]]

\* newListeners = { ...prevListeners }, then for each key of listeners:
\* if (listeners[key] === prevListeners[key]) delete newListeners[key]
RemoveMatching(prev, listeners) ==
  [name \in {key \in DOMAIN prev :
               ~(key \in DOMAIN listeners /\ listeners[key] = prev[key])} |-> prev[name]]

\* addListeners(listeners)
addListeners(listeners) ==
  /\ listenerCalls < MaxListenerCalls
  /\ listenerCalls' = listenerCalls + 1
  /\ hook' = [hook EXCEPT !.activeListeners = MergeListeners(@, listeners)]
  /\ UNCHANGED << subscriptions, invoked, nativeVars >>

\* removeListeners(listeners)
removeListeners(listeners) ==
  /\ listenerCalls < MaxListenerCalls
  /\ listenerCalls' = listenerCalls + 1
  /\ hook' = [hook EXCEPT !.activeListeners = RemoveMatching(@, listeners)]
  /\ UNCHANGED << subscriptions, invoked, nativeVars >>

\* useEffect(..., [activeListeners]) runs after the render that follows a change
\* of activeListeners: the subscriptions of the render before are removed and
\* handlers that see the new activeListeners are subscribed.
RunEffect ==
  /\ subscriptions # hook.activeListeners
  /\ subscriptions' = hook.activeListeners
  /\ UNCHANGED << hook, invoked, listenerCalls, nativeVars >>

\* The host starts one session through the controller.
StartListenedTrip ==
  /\ calls = 0
  /\ \E p \in TripInputs : controller_startJourneySharing(p)

NextListeners ==
  \/ StartListenedTrip
  \/ \E listeners \in ListenerObjects : addListeners(listeners)
  \/ \E listeners \in ListenerObjects : removeListeners(listeners)
  \/ RunEffect
  \/ ThreadsRun

SpecListeners == Init /\ [][NextListeners]_vars

\* ------------------------------------------------------------ properties
\* The fields of the module and its threads that a control operation could touch.
ModuleState == << isSessionActive, simulatedTrip, tripId, started, worker, lastEvent >>

\* Thread w is inside a tick: past the loop condition and before the sleep.
InTick(w) == worker[w].pc \in {"advance", "guard", "info", "payload", "emit"}

\* Thread w has been started and has not left its loop.
Alive(w) == worker[w].pc \notin {"none", "done"}

\* C1: a startJourneySharing call made while a session is active is rejected
\* with SESSION_ACTIVE and leaves the session object, all its fields, the module
\* flags and the set of worker threads as they were.
C1_StartWhileActiveRejected ==
  [][(isSessionActive /\ \E p \in TripInputs : startJourneySharing(p))
       => /\ promise' = Reject("start", "SESSION_ACTIVE")
          /\ UNCHANGED ModuleState]_vars

\* C1 witness: a start has been rejected with SESSION_ACTIVE and the session it
\* found is still the active one.
C1_Witness ==
  /\ promise = Reject("start", "SESSION_ACTIVE")
  /\ isSessionActive
  /\ simulatedTrip # Null
  /\ started = 1

\* C2: at most one worker thread is inside a tick (advancing or publishing) at
\* any time, whatever the sequence of start, stop and cleanup calls.
C2_AtMostOneWorkerTicking ==
  Cardinality({w \in Workers : InTick(w)}) <= 1

\* C3: once a stopJourneySharing call has resolved, no event is handed to the
\* bridge until a later start is accepted.
C3_NoEventAfterStop ==
  [][(promise = Resolve("stop")) => ~(\E w \in Workers : Emit(w))]_vars

\* C4: when stopJourneySharing has resolved, every worker thread has left its loop.
C4_StopJoinsWorker ==
  (promise = Resolve("stop")) => \A w \in Workers : ~Alive(w)

\* C5: between a worker's check that a session exists (the loop condition, or
\* the guard of a send method) and its uses of the session in that tick, the
\* session reference is neither cleared nor replaced.
C5_SessionStableWithinTick ==
  \A w \in Workers :
    (worker[w].pc \in {"advance", "info", "payload"})
      => /\ simulatedTrip # Null
         /\ simulatedTrip.sid = worker[w].seen

\* C6: a stopJourneySharing call made with no active session is rejected with
\* NO_SESSION and changes nothing; so is a stop that directly follows a
\* successful stop.
C6_StopWithoutSessionRejected ==
  [][stopJourneySharing
       => /\ (~isSessionActive \/ promise = Resolve("stop"))
               => /\ promise' = Reject("stop", "NO_SESSION")
                  /\ UNCHANGED ModuleState]_vars

\* C6 witness: a stop has been rejected with NO_SESSION after a session had been
\* started and ended.
C6_Witness ==
  /\ promise = Reject("stop", "NO_SESSION")
  /\ started = 1
  /\ ~isSessionActive

\* C7: cleanup always resolves true and leaves no active session; with no active
\* session it changes nothing, so a cleanup that follows a cleanup leaves the
\* state the first one made.
C7_CleanupAlwaysSucceeds ==
  [][cleanup
       => /\ promise' = Resolve("cleanup")
          /\ ~isSessionActive'
          /\ simulatedTrip' = Null
          /\ UNCHANGED << tripId, started, worker, lastEvent >>
          /\ (~isSessionActive \/ promise = Resolve("cleanup")) => UNCHANGED ModuleState]_vars

\* C7 witness: cleanup has resolved after it ended a session that was active.
C7_Witness ==
  /\ promise = Resolve("cleanup")
  /\ started = 1
  /\ ~isSessionActive
  /\ simulatedTrip = Null
  /\ Alive(1)

\* C8: the events of one tick reach the bridge in the order status, location,
\* ETA, distance, each directly after its predecessor of the same tick: no event
\* of another tick comes in between.
C8_BatchInOrderNotInterleaved ==
  [][\A w \in Workers :
       (Emit(w) /\ worker[w].k > 1)
         => /\ worker[w].sent = worker[w].k - 1
            /\ lastEvent = [name |-> EventNames[worker[w].k - 1],
                            k |-> worker[w].k - 1, worker |-> w]]_vars

\* A step in which thread w raises an exception inside its tick.
TickThrows(w) ==
  \/ EmitThrows(w)
  \/ Advance(w) /\ simulatedTrip = Null
  \/ SendPayload(w) /\ simulatedTrip = Null

\* C9: an exception raised in a tick leaves the thread in its loop, at the loop
\* condition, and changes neither the session, nor whether it is active, nor
\* the outcome any caller of start or stop was given.
C9_TickExceptionIsCaught ==
  [][\A w \in Workers :
       TickThrows(w)
         => /\ worker'[w].pc = "check"
            /\ UNCHANGED << isSessionActive, simulatedTrip, promise >>]_vars

\* C9 witness: the only thread there is has had a bridge call throw in a tick
\* and has, before any sleep returned, completed a later tick with its four
\* events, the session still active.
C9_Witness ==
  /\ faults = 1
  /\ started = 1
  /\ now = 0
  /\ isSessionActive
  /\ worker[1].pc = "sleep"
  /\ worker[1].sent = 4

\* C10: updateVehicleLocation on a session whose status is COMPLETED or CANCELED
\* changes no field of the session.
C10_TerminalAdvanceIsNoOp ==
  [][\A w \in Workers :
       (/\ simulatedTrip # Null
        /\ simulatedTrip.currentStatus \in {COMPLETED, CANCELED}
        /\ Advance(w))
         => simulatedTrip' = simulatedTrip]_vars

\* C10 witness: a session created CANCELED has been advanced a second time (the
\* first tick of its thread ended in a bridge call that threw, and no sleep has
\* returned) and still has the fields it was created with.
C10_Witness ==
  /\ started = 1
  /\ now = 0
  /\ faults = 1
  /\ simulatedTrip # Null
  /\ simulatedTrip.currentStatus = CANCELED
  /\ simulatedTrip.tripData.tripStatus = CANCELED
  /\ simulatedTrip.remainingDistanceMeters = InitialDistanceMeters
  /\ worker[1].pc = "guard"
  /\ worker[1].k = 1

\* ------------------------------------------------- properties of one tick
\* Some thread calls updateVehicleLocation on the session it finds.
Ticks == simulatedTrip # Null /\ \E w \in Workers : Advance(w)

\* The call finds a session that is neither COMPLETED nor CANCELED.
TicksLive == Ticks /\ ~IsTerminal(simulatedTrip.currentStatus)

\* The waypoint the cursor of the session points at before the tick.
TickTarget == simulatedTrip.tripData.remainingWaypoints[simulatedTrip.currentWaypointIndex + 1]

\* The tick moves the vehicle to within the arrival threshold of a waypoint of
\* the given type.
TickArrives(type) ==
  /\ TicksLive
  /\ HasTarget(simulatedTrip)
  /\ TickTarget.waypointType = type
  /\ Arrived(simulatedTrip'.vehicleLocation.location, TickTarget.location)

\* The tick moves the cursor on to a further waypoint: the next leg begins.
TickBeginsLeg ==
  /\ simulatedTrip'.currentWaypointIndex # simulatedTrip.currentWaypointIndex
  /\ HasTarget(simulatedTrip')

\* A thread has just returned from updateVehicleLocation.
JustTicked == \E w \in Workers : worker[w].pc = "guard" /\ worker[w].k = 1

\* C11 as stated: on every tick of a session that is neither COMPLETED nor
\* CANCELED the remaining distance does not rise.
C11_DistanceNeverRises ==
  [][TicksLive =>
       simulatedTrip'.remainingDistanceMeters <= simulatedTrip.remainingDistanceMeters]_vars

\* C11, amended: the remaining distance is never negative, and on a tick of a
\* session that is neither COMPLETED nor CANCELED it does not rise unless the tick
\* begins the next leg, where it is reset to the 3000 m or the 2000 m of that leg.
C11_DistanceFallsExceptOnLegReset ==
  /\ [](simulatedTrip # Null => simulatedTrip.remainingDistanceMeters >= 0)
  /\ [][TicksLive =>
          IF TickBeginsLeg
            THEN simulatedTrip'.remainingDistanceMeters \in {DropoffLegMeters, NextLegMeters}
            ELSE simulatedTrip'.remainingDistanceMeters
                   <= simulatedTrip.remainingDistanceMeters]_vars

\* A session that is still ticked has decayed to distance 0 and stays there.
C11_Witness ==
  /\ JustTicked
  /\ simulatedTrip # Null
  /\ ~IsTerminal(simulatedTrip.currentStatus)
  /\ simulatedTrip.remainingDistanceMeters = 0

C13_CursorWithinWaypoints ==
  simulatedTrip # Null =>
    LET wps == simulatedTrip.tripData.remainingWaypoints
        c == simulatedTrip.currentWaypointIndex
    IN /\ c \in 0..Len(wps)
       /\ Len(wps) >= 1
       /\ (~IsTerminal(simulatedTrip.currentStatus) /\ HasTarget(simulatedTrip))
            => (c + 1) \in DOMAIN wps

\* The cursor has reached the number of waypoints and a later tick of the session,
\* still not terminal, has read no waypoint (the vehicle was not moved).
C13_Witness ==
  /\ JustTicked
  /\ simulatedTrip # Null
  /\ ~IsTerminal(simulatedTrip.currentStatus)
  /\ simulatedTrip.currentWaypointIndex = Len(simulatedTrip.tripData.remainingWaypoints)
  /\ simulatedTrip.vehicleLocation.timestamp < now

\* C14: whenever the cursor equals the number of waypoints, the session is
\* COMPLETED or CANCELED.
C14_CursorAtEndIsTerminal ==
  (/\ simulatedTrip # Null
   /\ simulatedTrip.currentWaypointIndex = Len(simulatedTrip.tripData.remainingWaypoints))
    => IsTerminal(simulatedTrip.currentStatus)

\* C15: no tick moves the status backward in the order NEW, ENROUTE_TO_PICKUP,
\* ARRIVED_AT_PICKUP, ENROUTE_TO_DROPOFF, COMPLETED (the order of their numbers).
C15_StatusNeverMovesBackward ==
  [][(Ticks /\ simulatedTrip.currentStatus # CANCELED) =>
       simulatedTrip'.currentStatus >= simulatedTrip.currentStatus]_vars

\* C16: a tick that arrives at a DROPOFF waypoint ends with status COMPLETED,
\* remaining distance 0 and the cursor where it was, whatever the status and the
\* distance before it.
C16_DropoffArrivalCompletes ==
  [][TickArrives(DROPOFF) =>
       /\ simulatedTrip'.currentStatus = COMPLETED
       /\ simulatedTrip'.tripData.tripStatus = COMPLETED
       /\ simulatedTrip'.remainingDistanceMeters = 0
       /\ simulatedTrip'.currentWaypointIndex = simulatedTrip.currentWaypointIndex]_vars

\* A tick has just moved the vehicle onto the third waypoint, a DROPOFF, and
\* completed the session.
C16_Witness ==
  /\ JustTicked
  /\ simulatedTrip # Null
  /\ simulatedTrip.currentStatus = COMPLETED
  /\ simulatedTrip.remainingDistanceMeters = 0
  /\ simulatedTrip.currentWaypointIndex = 2
  /\ simulatedTrip.tripData.remainingWaypoints[3].waypointType = DROPOFF
  /\ simulatedTrip.vehicleLocation.timestamp = now

\* The remaining distance that the arrival branch of the tick tests: the distance
\* before the tick, decayed by this tick.
TickDistance == DecayDistance(simulatedTrip.remainingDistanceMeters)

\* C17 as stated: a tick that arrives at a PICKUP with less than 100 m remaining
\* ends ENROUTE_TO_DROPOFF with the cursor one further, the distance reset to
\* 3000 m and the ETA to 20 minutes from now, at every position of the PICKUP.
C17_PickupLeftAlwaysResets ==
  [][(TickArrives(PICKUP) /\ TickDistance < PickupLeaveMeters) =>
       /\ simulatedTrip'.currentStatus = ENROUTE_TO_DROPOFF
       /\ simulatedTrip'.currentWaypointIndex = simulatedTrip.currentWaypointIndex + 1
       /\ simulatedTrip'.remainingDistanceMeters = DropoffLegMeters
       /\ simulatedTrip'.etaTimestampMillis = now + DropoffLegMillis]_vars

\* C17, amended: such a tick ends ENROUTE_TO_DROPOFF with the cursor one further
\* at every position of the PICKUP; the distance is reset to 3000 m and the ETA to
\* 20 minutes from now when a waypoint follows the PICKUP, and when the PICKUP is
\* the last waypoint the distance and the ETA keep the values this tick decayed
\* them to.
C17_PickupLeftResetsForNextLeg ==
  [][(TickArrives(PICKUP) /\ TickDistance < PickupLeaveMeters) =>
       /\ simulatedTrip'.currentStatus = ENROUTE_TO_DROPOFF
       /\ simulatedTrip'.currentWaypointIndex = simulatedTrip.currentWaypointIndex + 1
       /\ IF simulatedTrip.currentWaypointIndex + 1
               < Len(simulatedTrip.tripData.remainingWaypoints)
            THEN /\ simulatedTrip'.remainingDistanceMeters = DropoffLegMeters
                 /\ simulatedTrip'.etaTimestampMillis = now + DropoffLegMillis
            ELSE /\ simulatedTrip'.remainingDistanceMeters = TickDistance
                 /\ simulatedTrip'.etaTimestampMillis
                      = DecayEta(simulatedTrip.etaTimestampMillis, now)]_vars

\* A tick has just left the PICKUP at the first position for the second waypoint.
C17_Witness ==
  /\ JustTicked
  /\ simulatedTrip # Null
  /\ simulatedTrip.tripData.remainingWaypoints[1].waypointType = PICKUP
  /\ simulatedTrip.currentStatus = ENROUTE_TO_DROPOFF
  /\ simulatedTrip.tripData.tripStatus = ENROUTE_TO_DROPOFF
  /\ simulatedTrip.currentWaypointIndex = 1
  /\ simulatedTrip.remainingDistanceMeters = DropoffLegMeters
  /\ simulatedTrip.etaTimestampMillis = now + DropoffLegMillis

\* Before the tick the vehicle is already within the arrival threshold of the
\* PICKUP waypoint at the cursor.
WaitsAtPickup ==
  /\ TicksLive
  /\ HasTarget(simulatedTrip)
  /\ TickTarget.waypointType = PICKUP
  /\ Arrived(simulatedTrip.vehicleLocation.location, TickTarget.location)

\* C18: a tick that arrives at a PICKUP with 100 m or more remaining ends
\* ARRIVED_AT_PICKUP with the cursor where it was and the distance and the ETA as
\* this tick decayed them (no reset); and a vehicle that is at the PICKUP arrives
\* there again on every later tick, so the session stays at that waypoint until
\* the decayed distance is below 100 m.
C18_PickupArrivalWaits ==
  [][/\ (TickArrives(PICKUP) /\ TickDistance >= PickupLeaveMeters) =>
          /\ simulatedTrip'.currentStatus = ARRIVED_AT_PICKUP
          /\ simulatedTrip'.currentWaypointIndex = simulatedTrip.currentWaypointIndex
          /\ simulatedTrip'.remainingDistanceMeters = TickDistance
          /\ simulatedTrip'.etaTimestampMillis
               = DecayEta(simulatedTrip.etaTimestampMillis, now)
     /\ WaitsAtPickup => TickArrives(PICKUP)
     /\ (WaitsAtPickup /\ simulatedTrip'.currentWaypointIndex
                            # simulatedTrip.currentWaypointIndex) =>
          TickDistance < PickupLeaveMeters]_vars

\* The session has waited at the first waypoint, a PICKUP, down to exactly 100 m.
C18_Witness ==
  /\ JustTicked
  /\ simulatedTrip # Null
  /\ simulatedTrip.tripData.remainingWaypoints[1].waypointType = PICKUP
  /\ simulatedTrip.currentStatus = ARRIVED_AT_PICKUP
  /\ simulatedTrip.currentWaypointIndex = 0
  /\ simulatedTrip.remainingDistanceMeters = PickupLeaveMeters
  /\ simulatedTrip.vehicleLocation.timestamp = now

\* C19 as stated: a tick that arrives at an INTERMEDIATE waypoint leaves the
\* status as it was, moves the cursor one further, and resets the distance to
\* 2000 m and the ETA to 10 minutes from now, at every position of the waypoint.
C19_IntermediateAlwaysResets ==
  [][TickArrives(INTERMEDIATE) =>
       /\ simulatedTrip'.currentStatus = simulatedTrip.currentStatus
       /\ simulatedTrip'.currentWaypointIndex = simulatedTrip.currentWaypointIndex + 1
       /\ simulatedTrip'.remainingDistanceMeters = NextLegMeters
       /\ simulatedTrip'.etaTimestampMillis = now + NextLegMillis]_vars

\* C19, amended: such a tick leaves the status as it was and moves the cursor one
\* further at every position of the waypoint; the distance is reset to 2000 m and
\* the ETA to 10 minutes from now when a waypoint follows it, and when it is the
\* last waypoint the distance and the ETA keep the values this tick decayed them
\* to.
C19_IntermediateResetsForNextLeg ==
  [][TickArrives(INTERMEDIATE) =>
       /\ simulatedTrip'.currentStatus = simulatedTrip.currentStatus
       /\ simulatedTrip'.currentWaypointIndex = simulatedTrip.currentWaypointIndex + 1
       /\ IF simulatedTrip.currentWaypointIndex + 1
               < Len(simulatedTrip.tripData.remainingWaypoints)
            THEN /\ simulatedTrip'.remainingDistanceMeters = NextLegMeters
                 /\ simulatedTrip'.etaTimestampMillis = now + NextLegMillis
            ELSE /\ simulatedTrip'.remainingDistanceMeters = TickDistance
                 /\ simulatedTrip'.etaTimestampMillis
                      = DecayEta(simulatedTrip.etaTimestampMillis, now)]_vars

\* A tick has just passed the INTERMEDIATE waypoint at the second position of a
\* trip of three and begun the leg to the third.
C19_Witness ==
  /\ JustTicked
  /\ simulatedTrip # Null
  /\ Len(simulatedTrip.tripData.remainingWaypoints) = 3
  /\ simulatedTrip.tripData.remainingWaypoints[2].waypointType = INTERMEDIATE
  /\ simulatedTrip.currentWaypointIndex = 2
  /\ simulatedTrip.currentStatus = ENROUTE_TO_DROPOFF
  /\ simulatedTrip.remainingDistanceMeters = NextLegMeters
  /\ simulatedTrip.etaTimestampMillis = now + NextLegMillis

\* The waypoints are a PICKUP, then INTERMEDIATE waypoints, then a DROPOFF.
IsPickupToDropoff(wps) ==
  /\ Len(wps) >= 2
  /\ wps[1].waypointType = PICKUP
  /\ wps[Len(wps)].waypointType = DROPOFF
  /\ \A i \in 2..(Len(wps) - 1) : wps[i].waypointType = INTERMEDIATE

\* The session in progress is over such a trip.
OnPickupToDropoffTrip ==
  /\ simulatedTrip # Null
  /\ IsPickupToDropoff(simulatedTrip.tripData.remainingWaypoints)

\* C20: a session over a trip PICKUP, INTERMEDIATE..., DROPOFF that is neither
\* COMPLETED nor CANCELED, ticked on and on, becomes COMPLETED with the cursor on
\* the DROPOFF; until then the cursor only ever moves to the next waypoint, and
\* every INTERMEDIATE waypoint it passes resets the distance for the next leg.
C20_TripRunsToCompletion ==
  /\ (OnPickupToDropoffTrip /\ ~IsTerminal(simulatedTrip.currentStatus))
       ~> (/\ OnPickupToDropoffTrip
           /\ simulatedTrip.currentStatus = COMPLETED
           /\ simulatedTrip.currentWaypointIndex
                = Len(simulatedTrip.tripData.remainingWaypoints) - 1)
  /\ [][(Ticks /\ OnPickupToDropoffTrip) =>
          /\ simulatedTrip'.currentWaypointIndex
               \in {simulatedTrip.currentWaypointIndex, simulatedTrip.currentWaypointIndex + 1}
          /\ simulatedTrip'.currentStatus = COMPLETED =>
               (IsTerminal(simulatedTrip.currentStatus) \/ TickArrives(DROPOFF))
          /\ TickArrives(INTERMEDIATE) =>
               simulatedTrip'.remainingDistanceMeters = NextLegMeters]_vars

\* A trip PICKUP, INTERMEDIATE, DROPOFF has been ticked from its PICKUP to
\* COMPLETED at its DROPOFF.
C20_Witness ==
  /\ JustTicked
  /\ OnPickupToDropoffTrip
  /\ Len(simulatedTrip.tripData.remainingWaypoints) = 3
  /\ simulatedTrip.currentStatus = COMPLETED
  /\ simulatedTrip.currentWaypointIndex = 2
  /\ simulatedTrip.vehicleLocation.timestamp = now

\* ---------------------------------------------- properties of the host's calls
\* The payload lacks the trip name, lacks the trip status, or has no waypoint
\* with a location.
LacksRequiredField(p) ==
  \/ ~HasKey(p, "tripName")
  \/ ~HasKey(p, "tripStatus")
  \/ \A i \in 1..Len(WaypointMaps(p)) : ~HasKey(WaypointMaps(p)[i], "location")

\* The step changes neither the session fields nor the threads.
NoSessionCreated ==
  /\ isSessionActive' = isSessionActive
  /\ simulatedTrip' = simulatedTrip
  /\ started' = started
  /\ worker' = worker

\* C21: a start, with no session active, whose payload lacks the trip name, the
\* trip status or every waypoint location is rejected with INVALID_TRIP and
\* creates no session.
C21_IncompletePayloadIsInvalidTrip ==
  [][\A p \in HostPayloads :
       (~isSessionActive /\ LacksRequiredField(p) /\ startJourneySharing(p)) =>
         (promise' = Reject("start", "INVALID_TRIP") /\ NoSessionCreated)]_vars

\* The payload has a waypoint whose type code is none of PICKUP, DROPOFF,
\* INTERMEDIATE.
HasUnknownType(p) ==
  \E i \in 1..Len(WaypointMaps(p)) :
    /\ HasKey(WaypointMaps(p)[i], "waypointType")
    /\ WaypointMaps(p)[i].waypointType \notin WaypointTypes

\* C22: a start, with no session active, whose payload has a waypoint of an
\* unknown type is rejected with INVALID_TRIP and creates no session, and no tick
\* ever has a waypoint of an unknown type as its target.
C22_UnknownTypeIsInvalidTrip ==
  [][/\ \A p \in HostPayloads :
          (~isSessionActive /\ HasUnknownType(p) /\ startJourneySharing(p)) =>
            (promise' = Reject("start", "INVALID_TRIP") /\ NoSessionCreated)
     /\ (TicksLive /\ HasTarget(simulatedTrip)) =>
          TickTarget.waypointType \in WaypointTypes]_vars

\* C23: the session that an accepted start creates has the vehicle on the first
\* waypoint of the payload with heading 0 and the time of creation, cursor 0,
\* 2500 m remaining, the ETA 15 minutes after creation, and the status (also in
\* its trip data) that the payload states.
C23_NewSessionValues ==
  [][\A p \in TripInputs :
       (startJourneySharing(p) /\ started' = started + 1) =>
         /\ simulatedTrip' # Null
         /\ simulatedTrip'.vehicleLocation =
              [location |-> p.remainingWaypoints[1].location, heading |-> 0,
               timestamp |-> now]
         /\ simulatedTrip'.currentWaypointIndex = 0
         /\ simulatedTrip'.remainingDistanceMeters = InitialDistanceMeters
         /\ simulatedTrip'.etaTimestampMillis = now + InitialEtaMillis
         /\ simulatedTrip'.currentStatus = p.tripStatus.number
         /\ simulatedTrip'.tripData.tripStatus = p.tripStatus.number]_vars

\* A second session has just been created, a tick period after the module was,
\* while the thread of the first one has published an event.
C23_Witness ==
  /\ started = 2
  /\ simulatedTrip # Null
  /\ simulatedTrip.sid = 2
  /\ simulatedTrip.currentWaypointIndex = 0
  /\ simulatedTrip.remainingDistanceMeters = InitialDistanceMeters
  /\ simulatedTrip.vehicleLocation.timestamp = now
  /\ now > 0
  /\ worker[2].pc = "check"
  /\ lastEvent # Null

\* The tick moves the vehicle to within the arrival threshold of its target.
TickArrivesAtTarget ==
  /\ TicksLive
  /\ HasTarget(simulatedTrip)
  /\ Arrived(simulatedTrip'.vehicleLocation.location, TickTarget.location)

\* C24: a tick on which the vehicle does not arrive at its target waypoint
\* leaves the status (also in the trip data) and the cursor as they were.
C24_NonArrivalKeepsStatusAndCursor ==
  [][(Ticks /\ ~TickArrivesAtTarget) =>
       /\ simulatedTrip'.currentStatus = simulatedTrip.currentStatus
       /\ simulatedTrip'.tripData.tripStatus = simulatedTrip.tripData.tripStatus
       /\ simulatedTrip'.currentWaypointIndex = simulatedTrip.currentWaypointIndex]_vars

\* A tick has just moved the vehicle toward the second waypoint, still farther
\* from it than the arrival threshold.
C24_Witness ==
  /\ JustTicked
  /\ simulatedTrip # Null
  /\ ~IsTerminal(simulatedTrip.currentStatus)
  /\ simulatedTrip.currentWaypointIndex = 1
  /\ HasTarget(simulatedTrip)
  /\ simulatedTrip.vehicleLocation.timestamp = now
  /\ simulatedTrip.vehicleLocation.location
       # simulatedTrip.tripData.remainingWaypoints[1].location
  /\ ~Arrived(simulatedTrip.vehicleLocation.location,
              simulatedTrip.tripData.remainingWaypoints[2].location)

\* ------------------------------------------ properties of the published events
\* C25: every event handed to the bridge carries a snapshot with the trip id, the
\* trip status and the waypoint list, taken from the session object that its
\* payload was read from.
C25_SnapshotCompleteAndOfPayloadSession ==
  [][\A w \in Workers :
       Emit(w) =>
         /\ HasKey(worker[w].info, "tripId")
         /\ HasKey(worker[w].info, "tripStatus")
         /\ HasKey(worker[w].info, "remainingWaypoints")
         /\ worker[w].info.sid = worker[w].payload.sid]_vars

C27_HeadingBelow360 ==
  simulatedTrip # Null =>
    /\ simulatedTrip.vehicleLocation.heading >= 0
    /\ simulatedTrip.vehicleLocation.heading < 360

\* ------------------------------------------- the useJourneySharing controller
\* What a method of journeySharingController gives its caller for the way the
\* native method settled: try { return await native(...) } catch (error)
\* { console.error(...); return false; }
ControllerResult(native) ==
  IF native.settled = "reject"
    THEN [op |-> native.op, settled |-> "resolve", value |-> "false"]
    ELSE native

\* C28: when the native module rejects a start or a stop, the call through the
\* controller fails with the same error kind.
C28_ControllerPassesErrorKind ==
  (promise # Null /\ promise.settled = "reject") =>
    /\ ControllerResult(promise).settled = "reject"
    /\ ControllerResult(promise).value = promise.value

\* The names of enum TripStatus, by code: TripStatus[code].
TripStatusNames ==
  << "NEW", "ENROUTE_TO_PICKUP", "ARRIVED_AT_PICKUP", "ENROUTE_TO_DROPOFF", "COMPLETED",
     "CANCELED" >>

\* The status code that a status name stands for.
StatusOfName(name) == CHOOSE st \in Statuses : TripStatusNames[st + 1] = name

\* The payload gives its status as a name and nothing else is wrong with it.
HasStatusName(p) ==
  /\ HasKey(p, "tripName")
  /\ HasKey(p, "tripStatus")
  /\ HasKey(p.tripStatus, "string")
  /\ WaypointMaps(p) # << >>
  /\ \A i \in 1..Len(WaypointMaps(p)) : HasKey(WaypointMaps(p)[i], "location")

\* C29: a start, with no session active, whose payload gives the status as its
\* name is accepted and creates a session with the status of that name.
C29_StatusNameAccepted ==
  [][\A p \in HostPayloads :
       (~isSessionActive /\ HasStatusName(p) /\ startJourneySharing(p)) =>
         /\ promise' = Resolve("start")
         /\ isSessionActive'
         /\ simulatedTrip' # Null
         /\ simulatedTrip'.currentStatus = StatusOfName(p.tripStatus.string)]_vars

\* C30: the status in the trip data of a session equals its current status, and
\* in every trip-status event whose snapshot has a tripStatus that tripStatus
\* equals the status payload of the event.
C30_StatusPayloadEqualsSnapshotStatus ==
  /\ [](simulatedTrip # Null =>
          simulatedTrip.tripData.tripStatus = simulatedTrip.currentStatus)
  /\ [][\A w \in Workers :
          (Emit(w) /\ worker[w].k = 1 /\ HasKey(worker[w].info, "tripStatus")) =>
            worker[w].payload.value = worker[w].info.tripStatus]_vars

\* ------------------------------------------------ the period of the ticks
\* The session has certainly been advanced before: its distance is no longer
\* the one it was created with (every updateVehicleLocation of a live session
\* lowers or resets it).
AdvancedBefore(s) == s.remainingDistanceMeters # InitialDistanceMeters

\* C31: consecutive advances of a session are one full tick period apart: a
\* session that has been advanced is not advanced again before a period has
\* passed since (vehicleLocation.timestamp holds the time of that advance while
\* the session has a waypoint ahead), also after a tick that threw and after a
\* stop followed by a new start.
C31_AdvancesOnePeriodApart ==
  [][(/\ TicksLive
      /\ HasTarget(simulatedTrip)
      /\ AdvancedBefore(simulatedTrip))
       => now >= simulatedTrip.vehicleLocation.timestamp + TickPeriodMillis]_vars

\* --------------------------------------------- the thread of an ended session
\* The session that thread w was started for (the w-th accepted start) has been
\* ended by a stop or cleanup: the module holds no session or a later one.
SessionEnded(w) ==
  /\ worker[w].pc # "none"
  /\ simulatedTrip = Null \/ simulatedTrip.sid # w

\* C32: after a stop or cleanup has ended a session, the thread started for it
\* terminates, whatever control operations follow: when that thread next
\* evaluates its loop condition it leaves the loop, also when a new start has
\* been accepted in between.
C32_EndedWorkerLeavesLoop ==
  [][\A w \in Workers :
       (SessionEnded(w) /\ LoopCheck(w)) => worker'[w].pc = "done"]_vars

\* ------------------------------------------------- after the trip completed
\* The module holds a session whose status is COMPLETED.
SessionCompleted == simulatedTrip # Null /\ simulatedTrip.currentStatus = COMPLETED

\* C33: reaching COMPLETED does not end the session. While the module holds a
\* COMPLETED session (until the host's stop or cleanup) the session is active;
\* no step of the thread changes the session or the flag; the thread passes its
\* loop condition, publishes in every tick the four events in order, each with
\* the value the session holds, and sleeps only after the fourth; and a start is
\* rejected with SESSION_ACTIVE and changes nothing.
C33_CompletedSessionGoesOn ==
  /\ [](SessionCompleted => isSessionActive)
  /\ [][SessionCompleted =>
          /\ TripRuns => UNCHANGED << isSessionActive, simulatedTrip >>
          /\ \A w \in Workers :
               /\ LoopCheck(w) => worker'[w].pc = "advance"
               /\ Emit(w) => /\ worker[w].payload = PayloadOf(simulatedTrip, worker[w].k)
                             /\ worker[w].sent = worker[w].k - 1
               /\ (worker'[w].pc = "sleep") => worker'[w].sent = 4
          /\ (\E p \in TripInputs : startJourneySharing(p))
               => /\ promise' = Reject("start", "SESSION_ACTIVE")
                  /\ UNCHANGED ModuleState]_vars

\* C33 witness: a trip that was completed by its arrival at the DROPOFF in the
\* first tick (at time 0) is still active two periods later, its thread has
\* just published the four events of a later tick, and a start made in between
\* was rejected with SESSION_ACTIVE.
C33_Witness ==
  /\ SessionCompleted
  /\ isSessionActive
  /\ simulatedTrip.remainingDistanceMeters = 0
  /\ simulatedTrip.vehicleLocation.timestamp = 0
  /\ now = 2 * TickPeriodMillis
  /\ worker[1].pc = "sleep"
  /\ ~worker[1].slept
  /\ worker[1].sent = 4
  /\ promise = Reject("start", "SESSION_ACTIVE")

\* ------------------------------------------------------- a rejected start
\* A step in which a startJourneySharing call is rejected, whatever the code.
StartIsRejected ==
  /\ \E p \in TripInputs : startJourneySharing(p)
  /\ promise'.settled = "reject"

\* C34: a startJourneySharing call that is rejected for any reason leaves the
\* module with no active session, no thread in its loop and nothing stored of
\* the trip it was given, so that the next start is not rejected for an active
\* session and the next stop is rejected with NO_SESSION.
C34_RejectedStartLeavesNothing ==
  [][StartIsRejected
       => /\ ~isSessionActive'
          /\ simulatedTrip' = Null
          /\ \A w \in Workers : ~Alive(w)'
          /\ tripId' = tripId
          /\ ~StartRejected'
          /\ StopRejected']_vars

\* ------------------------------------------ the statuses the engine sets
\* The statuses that no branch of updateVehicleLocation assigns.
StatusesOfTheHost == {STATUS_NEW, ENROUTE_TO_PICKUP, CANCELED}

\* C35: the engine never sets the status to NEW, ENROUTE_TO_PICKUP or CANCELED:
\* a session has one of these statuses after a tick only if it had it before
\* the tick (so only if it was created with it), and a session that is NEW stays
\* NEW on every tick that does not arrive at a PICKUP or DROPOFF waypoint.
C35_EngineKeepsHostStatuses ==
  [][Ticks =>
       /\ (simulatedTrip'.currentStatus \in StatusesOfTheHost)
            => simulatedTrip'.currentStatus = simulatedTrip.currentStatus
       /\ (/\ simulatedTrip.currentStatus = STATUS_NEW
           /\ ~TickArrives(PICKUP)
           /\ ~TickArrives(DROPOFF))
            => simulatedTrip'.currentStatus = STATUS_NEW]_vars

\* C35 witness: a session is still NEW after the tick in which it arrived at an
\* INTERMEDIATE waypoint and after a further tick on the way to the next one.
C35_Witness ==
  /\ JustTicked
  /\ simulatedTrip # Null
  /\ simulatedTrip.currentStatus = STATUS_NEW
  /\ simulatedTrip.tripData.tripStatus = STATUS_NEW
  /\ simulatedTrip.currentWaypointIndex = 1
  /\ simulatedTrip.tripData.remainingWaypoints[1].waypointType = INTERMEDIATE
  /\ simulatedTrip.remainingDistanceMeters = NextLegMeters - DistanceStepMeters

\* ------------------------------------------------- the stream of statuses
\* C36: in the status events of a session started in NEW or ENROUTE_TO_PICKUP,
\* ENROUTE_TO_DROPOFF is not published unless ARRIVED_AT_PICKUP was published on
\* an earlier tick: a tick that finds the session in NEW or ENROUTE_TO_PICKUP
\* (the status every earlier tick has published) does not leave it in
\* ENROUTE_TO_DROPOFF, the status this tick publishes.
C36_ArrivedPublishedBeforeEnrouteToDropoff ==
  [][(Ticks /\ simulatedTrip.currentStatus \in {STATUS_NEW, ENROUTE_TO_PICKUP})
       => simulatedTrip'.currentStatus # ENROUTE_TO_DROPOFF]_vars

\* ------------------------------------------------------ the batch of a tick
\* Thread w is in send method k >= 2 of its tick and has published the event of
\* every send method before it, the trip-status event first.
BatchUnderWay(w) ==
  /\ InTick(w)
  /\ worker[w].k >= 2
  /\ worker[w].sent = worker[w].k - 1

\* Send method k of thread w returns at its guard without publishing.
SendSkipped(w) == SendGuard(w) /\ worker'[w].pc # "info"

\* C37: a tick that has published its trip-status event publishes the
\* vehicle-location, ETA and remaining-distance events too: once the status
\* event is out, no later send method of the tick returns without publishing
\* (a concurrent stop or cleanup) and none throws out of the tick.
C37_BatchNotCutShort ==
  [][\A w \in Workers :
       BatchUnderWay(w) => ~SendSkipped(w) /\ ~TickThrows(w)]_vars

\* ------------------------------------------------- the flags of the hook
\* C38: after any sequence of completed controller calls (init, start, stop,
\* cleanup, setProviderToken) made through one hook on a fresh native module,
\* the isSessionActive of the hook equals the isSessionActive of the native
\* module, also after calls that the native module rejected.
C38_HookFlagEqualsNativeFlag ==
  hook.isSessionActive = isSessionActive

\* C38 witness: of three calls through the controller, none of them init or
\* setProviderToken, one start was accepted and the last, a start too, has been
\* rejected by the native module for the active session: both flags are true.
C38_Witness ==
  /\ calls = 3
  /\ started = 1
  /\ providerId = NullString
  /\ providerToken = NullString
  /\ promise = Reject("start", "SESSION_ACTIVE")
  /\ hook.isSessionActive
  /\ isSessionActive

\* ------------------------------------------------ the callbacks of the host
\* The callback registered in the hook under an event name, if any.
Registered(name) ==
  IF name \in DOMAIN hook.activeListeners THEN hook.activeListeners[name] ELSE "none"

\* The event that thread w hands to the bridge makes a handler of the hook call
\* a callback of the host.
CallbackCalled(w) == Emit(w) /\ EventNames[worker[w].k] \in DOMAIN subscriptions

\* C39: at most one callback per event name is registered in the hook;
\* addListeners(L) sets the callback of each name in L and leaves the others;
\* removeListeners(L) removes the callbacks of L that are the registered ones
\* and leaves every other callback; and no event calls a callback under a name
\* whose callback has been removed.
C39_ListenersRegisteredAndRemoved ==
  /\ [](hook.activeListeners \in ListenerObjects)
  /\ [][\A L \in ListenerObjects :
          addListeners(L)
            => \A name \in ListenerNames :
                 Registered(name)' = IF name \in DOMAIN L THEN L[name] ELSE Registered(name)]_vars
  /\ [][\A L \in ListenerObjects :
          removeListeners(L)
            => \A name \in ListenerNames :
                 Registered(name)' =
                   IF name \in DOMAIN L /\ L[name] = Registered(name)
                     THEN "none" ELSE Registered(name)]_vars
  /\ [][\A w \in Workers :
          CallbackCalled(w) => Registered(EventNames[worker[w].k]) # "none"]_vars

====
